---- MODULE Spec2Model ----
(***************************************************************************)
(* STEM STAMP: the classification pipeline (SoundClassifier.classify and   *)
(* GeneralSoundProcessor.process_file) and the GUI batch that drives it    *)
(* (StemStampGUI, StemStamp.process_file, FLStudioIntegrator).             *)
(*                                                                         *)
(* Confidences and scores are integers in units of 1/10000 (0.15 is 1500,  *)
(* 0.9 is 9000).  The zero-crossing rate is in units of 1/100; centroid,   *)
(* bandwidth and cepstral deviation keep their units.                      *)
(***************************************************************************)
EXTENDS Integers, Sequences, FiniteSets, Bags, TLC

VARIABLES
  clip,           \* the decoded content of the file on disk that is being processed
  call,           \* the latest GeneralSoundProcessor.process_file call on it, or NoCall
  prev,           \* the call before it, or NoCall
  fl_studio_dir,  \* StemStampGUI.fl_studio_dir ("" until a directory is selected)
  fl_studio,      \* StemStamp.fl_studio: the integrator's fl_studio_path, or None
  threads,        \* the worker threads started so far, in start order
  log,            \* the lines of the log area: a bag, their order is not kept
  copied,         \* the copies shutil.copy2 has made, each with the directory
                  \* selected when its callback was entered and when it copied
  batches,        \* the file tuples _process_files went through, in order
  events          \* button presses (directory or file selection) so far

pvars == <<clip, call, prev>>
gvars == <<fl_studio_dir, fl_studio, threads, log, copied, batches, events>>
vars == <<clip, call, prev, fl_studio_dir, fl_studio, threads, log, copied, batches,
          events>>

(***************************************************************************)
(* Names.  A name is a string; Chars gives its characters, so that         *)
(* str.lower() and the substring test `a in b` are computed.               *)
(***************************************************************************)
Chars(s) ==
  CASE s = "Drums" -> <<"D", "r", "u", "m", "s">>
    [] s = "Snare drum" -> <<"S", "n", "a", "r", "e", " ", "d", "r", "u", "m">>
    [] s = "Bass drum" -> <<"B", "a", "s", "s", " ", "d", "r", "u", "m">>
    [] s = "Cymbal" -> <<"C", "y", "m", "b", "a", "l">>
    [] s = "Hi-hat" -> <<"H", "i", "-", "h", "a", "t">>
    [] s = "Percussion" -> <<"P", "e", "r", "c", "u", "s", "s", "i", "o", "n">>
    [] s = "Guitar" -> <<"G", "u", "i", "t", "a", "r">>
    [] s = "Electric guitar" -> <<"E", "l", "e", "c", "t", "r", "i", "c", " ", "g", "u", "i", "t", "a", "r">>
    [] s = "Bass guitar" -> <<"B", "a", "s", "s", " ", "g", "u", "i", "t", "a", "r">>
    [] s = "Acoustic guitar" -> <<"A", "c", "o", "u", "s", "t", "i", "c", " ", "g", "u", "i", "t", "a", "r">>
    [] s = "Piano" -> <<"P", "i", "a", "n", "o">>
    [] s = "Saxophone" -> <<"S", "a", "x", "o", "p", "h", "o", "n", "e">>
    [] s = "Trumpet" -> <<"T", "r", "u", "m", "p", "e", "t">>
    [] s = "Flute" -> <<"F", "l", "u", "t", "e">>
    [] s = "Clarinet" -> <<"C", "l", "a", "r", "i", "n", "e", "t">>
    [] s = "Synthesizer" -> <<"S", "y", "n", "t", "h", "e", "s", "i", "z", "e", "r">>
    [] s = "Electronic" -> <<"E", "l", "e", "c", "t", "r", "o", "n", "i", "c">>
    [] s = "Sample" -> <<"S", "a", "m", "p", "l", "e">>
    [] s = "Speech" -> <<"S", "p", "e", "e", "c", "h">>
    [] s = "Male speech" -> <<"M", "a", "l", "e", " ", "s", "p", "e", "e", "c", "h">>
    [] s = "Female speech" -> <<"F", "e", "m", "a", "l", "e", " ", "s", "p", "e", "e", "c", "h">>
    [] s = "Singing" -> <<"S", "i", "n", "g", "i", "n", "g">>
    [] s = "Vocals" -> <<"V", "o", "c", "a", "l", "s">>
    [] s = "Music" -> <<"M", "u", "s", "i", "c">>
    [] s = "Drum kit" -> <<"D", "r", "u", "m", " ", "k", "i", "t">>
    [] s = "Tabla" -> <<"T", "a", "b", "l", "a">>
    [] s = "Electronic music" -> <<"E", "l", "e", "c", "t", "r", "o", "n", "i", "c", " ", "m", "u", "s", "i", "c">>
    [] s = "/in/kick.wav" -> <<"/", "i", "n", "/", "k", "i", "c", "k", ".", "w", "a", "v">>
    [] s = "/in/clip.WAV" -> <<"/", "i", "n", "/", "c", "l", "i", "p", ".", "W", "A", "V">>
    [] s = "/in/notes.txt" -> <<"/", "i", "n", "/", "n", "o", "t", "e", "s", ".", "t", "x", "t">>
    [] s = ".wav" -> <<".", "w", "a", "v">>

UpperLetters ==
  <<"A", "B", "C", "D", "E", "F", "G", "H", "I", "J", "K", "L", "M",
    "N", "O", "P", "Q", "R", "S", "T", "U", "V", "W", "X", "Y", "Z">>

LowerLetters ==
  <<"a", "b", "c", "d", "e", "f", "g", "h", "i", "j", "k", "l", "m",
    "n", "o", "p", "q", "r", "s", "t", "u", "v", "w", "x", "y", "z">>

\* str.lower(), one character
LowerChar(c) ==
  IF \E i \in 1..Len(UpperLetters) : UpperLetters[i] = c
    THEN LowerLetters[CHOOSE i \in 1..Len(UpperLetters) : UpperLetters[i] = c]
    ELSE c

\* str.lower()
Lower(w) == [i \in 1..Len(w) |-> LowerChar(w[i])]

\* `needle in hay` on strings: needle occurs in hay as a contiguous run
Contains(hay, needle) ==
  \E i \in 0..(Len(hay) - Len(needle)) :
    \A j \in 1..Len(needle) : hay[i + j] = needle[j]

(***************************************************************************)
(* SoundClassifier                                                         *)
(***************************************************************************)
\* the keys of the dictionary _initialize_sound_classes builds, in the order
\* the dictionary literal inserts them (the order a dict iterates in)
SoundClassOrder ==
  <<"Drums", "Snare drum", "Bass drum", "Cymbal", "Hi-hat", "Percussion",
    "Guitar", "Electric guitar", "Bass guitar", "Acoustic guitar", "Piano",
    "Saxophone", "Trumpet", "Flute", "Clarinet",
    "Synthesizer", "Electronic", "Sample",
    "Speech", "Male speech", "Female speech", "Singing", "Vocals",
    "Music">>

SoundTypes == {SoundClassOrder[i] : i \in 1..Len(SoundClassOrder)}

\* _initialize_sound_classes(): every class at 0.0
InitializeSoundClasses == [k \in SoundTypes |-> 0]

\* faulty variant: the later value replaces the earlier one
TakeSecond(a, b) == b

Max2(a, b) == IF a >= b THEN a ELSE b

\* the rows of the class-map CSV the URL serves (display names, file order),
\* shortened to the rows that name one of the sound classes
RemoteClassMap ==
  <<"Speech", "Singing", "Music", "Electric guitar", "Bass guitar",
    "Acoustic guitar", "Synthesizer", "Snare drum", "Electronic music">>

\* the list _load_class_map returns when the download raises
FallbackClassMap ==
  <<"Drums", "Snare drum", "Bass drum", "Drum kit",
    "Tabla", "Cymbal", "Hi-hat", "Bass drum", "Percussion">>

\* _load_class_map(): the downloaded display names, or the fallback list
LoadClassMap(net_up) == IF net_up THEN RemoteClassMap ELSE FallbackClassMap

ClassNames ==
  {RemoteClassMap[i] : i \in 1..Len(RemoteClassMap)}
    \cup {FallbackClassMap[i] : i \in 1..Len(FallbackClassMap)}

\* faulty variant: the class name must equal the sound type
TypeEqualsClassName(sound_type, class_name) ==
  Lower(Chars(class_name)) = Lower(Chars(sound_type))

\* `sound_type.lower() in class_name`, class_name lower-cased
TypeInClassName(sound_type, class_name) ==
  Contains(Lower(Chars(class_name)), Lower(Chars(sound_type)))

\* the sound types each class name feeds
NameMatches ==
  [c \in ClassNames |-> {k \in SoundTypes : TypeInClassName(k, c)}]

\* a YAMNet mean score counts when it is above this
YamnetMin == 3000

\* "Detect percussion instruments"
DetectPercussion(sc, f) ==
  IF f.zcr_mean > 10 /\ f.spec_mean > 2000
    THEN LET a == IF f.spec_mean > 5000
                    THEN [sc EXCEPT !["Cymbal"] = 9000, !["Hi-hat"] = 8000]
                    ELSE IF f.spec_mean < 1000
                      THEN [sc EXCEPT !["Bass drum"] = 9000]
                      ELSE [sc EXCEPT !["Snare drum"] = 8500]
         IN  [a EXCEPT !["Drums"] = 9000]
    ELSE sc

\* "Detect guitars"
DetectGuitars(sc, f) ==
  IF 500 < f.spec_mean /\ f.spec_mean < 3000 /\ f.spec_std > 500
    THEN LET a == IF f.bandwidth_mean > 2000
                    THEN [sc EXCEPT !["Electric guitar"] = 9000]
                    ELSE [sc EXCEPT !["Acoustic guitar"] = 9000]
         IN  [a EXCEPT !["Guitar"] = 8500]
    ELSE sc

\* "Detect vocals"
DetectVocals(sc, f) ==
  IF f.mfcc_std_mean > 15
    THEN LET a == [sc EXCEPT !["Vocals"] = 9000]
         IN  IF f.spec_mean > 1800
               THEN [a EXCEPT !["Female speech"] = 8000]
               ELSE [a EXCEPT !["Male speech"] = 8000]
    ELSE sc

\* "Detect electronic sounds"
DetectElectronic(sc, f) ==
  IF f.zcr_mean > 20 /\ f.spec_std < 500
    THEN [sc EXCEPT !["Electronic"] = 8500, !["Synthesizer"] = 8000]
    ELSE sc

\* the four detectors in the order classify runs them
HeuristicRules(f) ==
  DetectElectronic(
    DetectVocals(DetectGuitars(DetectPercussion(InitializeSoundClasses, f), f), f), f)

\* the inner loop over sound_classes.keys(), from position j on
RECURSIVE MergeTypes(_, _, _, _)
MergeTypes(sc, j, class_name, score) ==
  IF j > Len(SoundClassOrder) THEN sc
  ELSE LET k == SoundClassOrder[j]
           nsc == IF k \in NameMatches[class_name]
                    THEN [sc EXCEPT ![k] = Max2(sc[k], score)]
                    ELSE sc
       IN  MergeTypes(nsc, j + 1, class_name, score)

\* "Combine with YAMNet predictions": the loop over enumerate(class_map), from i on
RECURSIVE CombineYamnet(_, _, _, _)
CombineYamnet(sc, i, class_map, scores) ==
  IF i > Len(class_map) THEN sc
  ELSE LET nsc == IF scores[i] > YamnetMin
                    THEN MergeTypes(sc, 1, class_map[i], scores[i])
                    ELSE sc
       IN  CombineYamnet(nsc, i + 1, class_map, scores)

\* "Only use Music category if no other instrument is detected with confidence"
SuppressMusic(sc) ==
  IF \E k \in SoundTypes \ {"Music"} : sc[k] > 3000
    THEN [sc EXCEPT !["Music"] = 0]
    ELSE sc

\* the map after the heuristic rules and the YAMNet merge, before the Music rule
MergedClasses(f, scores, net_up) ==
  CombineYamnet(HeuristicRules(f), 1, LoadClassMap(net_up), scores)

\* SoundClassifier.classify(waveform, sample_rate): the returned sound_classes
Classify(f, scores, net_up) == SuppressMusic(MergedClasses(f, scores, net_up))

(***************************************************************************)
(* GeneralSoundProcessor                                                   *)
(***************************************************************************)
\* self.color_map
color_map ==
  [k \in SoundTypes \cup {"Violin", "Generic"} |->
    CASE k = "Drums" -> "#FFD700"           [] k = "Snare drum" -> "#FFA500"
      [] k = "Bass drum" -> "#FF4500"       [] k = "Cymbal" -> "#FFE4B5"
      [] k = "Hi-hat" -> "#FFDAB9"          [] k = "Percussion" -> "#DEB887"
      [] k = "Guitar" -> "#98FB98"          [] k = "Electric guitar" -> "#90EE90"
      [] k = "Bass guitar" -> "#32CD32"     [] k = "Acoustic guitar" -> "#228B22"
      [] k = "Piano" -> "#00FF00"           [] k = "Violin" -> "#7CFC00"
      [] k = "Saxophone" -> "#87CEEB"       [] k = "Trumpet" -> "#00BFFF"
      [] k = "Flute" -> "#1E90FF"           [] k = "Clarinet" -> "#4169E1"
      [] k = "Synthesizer" -> "#FF00FF"     [] k = "Electronic" -> "#FF69B4"
      [] k = "Sample" -> "#DA70D6"          [] k = "Speech" -> "#FF1493"
      [] k = "Male speech" -> "#DB7093"     [] k = "Female speech" -> "#FFB6C1"
      [] k = "Singing" -> "#FF69B4"         [] k = "Vocals" -> "#FFC0CB"
      [] k = "Music" -> "#FFFFFF"           [] k = "Generic" -> "#CCCCCC"]

\* self.color_map.get(instrument_type, '#FFFFFF')
ColorOf(instrument_type) ==
  IF instrument_type \in DOMAIN color_map THEN color_map[instrument_type] ELSE "#FFFFFF"

\* threshold = 0.15
Threshold == 1500

\* min_samples = int(sample_rate * 0.1): the product truncated toward zero
MinSamples(sample_rate) == sample_rate \div 10

\* classifications.items(): <<key, value>> pairs in the dictionary's order
Items(classifications) ==
  [i \in 1..Len(SoundClassOrder) |->
    <<SoundClassOrder[i], classifications[SoundClassOrder[i]]>>]

\* the condition of the dictionary comprehension, for item <<k, v>>
Keeps(classifications, k, v) ==
  \/ (v > Threshold /\ k # "Music")
  \/ (k = "Music"
      /\ \A k2 \in DOMAIN classifications \ {"Music"} : classifications[k2] <= Threshold)

\* faulty variant: only the threshold is applied: no Music clause, no substitute
FilteredAboveThresholdOnly(classifications) ==
  SelectSeq(Items(classifications), LAMBDA it : it[2] > Threshold /\ it[1] # "Music")

\* filtered_classifications, with the {'Music': 0.1} substitute when it is empty
FilteredClassifications(classifications) ==
  LET kept == SelectSeq(Items(classifications),
                        LAMBDA it : Keeps(classifications, it[1], it[2]))
  IN  IF kept = <<>> THEN <<<<"Music", 1000>>>> ELSE kept

\* Python's max(items, key=value) scanning from position i with `best` so far:
\* a later item replaces best only when its value is strictly greater
RECURSIVE PyMax(_, _, _)
PyMax(items, i, best) ==
  IF i > Len(items) THEN best
  ELSE PyMax(items, i + 1, IF items[i][2] > best[2] THEN items[i] ELSE best)

\* faulty variant: the item scanned last wins a tie
RECURSIVE PyMaxLast(_, _, _)
PyMaxLast(items, i, best) ==
  IF i > Len(items) THEN best
  ELSE PyMaxLast(items, i + 1, IF items[i][2] >= best[2] THEN items[i] ELSE best)

\* faulty variant: the first item is returned unexamined
FirstItem(items) == items[1][1]

\* faulty variant: max with ties going to the item scanned last
LastHighest(items) == PyMaxLast(items, 2, items[1])[1]

\* max(filtered_classifications.items(), key=lambda x: x[1])[0]
HighestScoring(items) == PyMax(items, 2, items[1])[1]

NoMap == <<>>

None == "None"

Failed(env, error, classified) ==
  [env |-> env, outcome |-> "error", error |-> error, classified |-> classified,
   classifications |-> NoMap, filtered |-> <<>>,
   instrument_type |-> "none", color |-> "none"]

\* GeneralSoundProcessor.process_file on a file whose decoded content is c, in
\* environment env: "net_up" / "net_down" (the class-map download succeeds /
\* raises) or "model_error" (the YAMNet call or a feature extractor raises)
ProcessorProcessFile(c, env) ==
  IF ~c.readable THEN Failed(env, "read", FALSE)
  ELSE IF c.samples < MinSamples(c.sample_rate) THEN Failed(env, "too_short", FALSE)
  ELSE IF env = "model_error" \/ c.samples = 0   \* waveform.max() of no samples raises
    THEN Failed(env, "classify", TRUE)
  ELSE LET classifications == Classify(c.features, c.scores, env = "net_up")
           filtered == FilteredClassifications(classifications)
           instrument_type == HighestScoring(filtered)
       IN  IF filtered = <<>> THEN Failed(env, "select", TRUE)  \* max() of nothing raises
           ELSE
           [env |-> env, outcome |-> "ok", error |-> "none", classified |-> TRUE,
            classifications |-> classifications, filtered |-> filtered,
            instrument_type |-> instrument_type, color |-> ColorOf(instrument_type)]

(***************************************************************************)
(* The files processed                                                     *)
(***************************************************************************)
\* at most this many YAMNet classes score above zero on one clip
MaxActive == 2
\* sample rates 1..MaxRate are tried besides the usual ones
MaxRate == 12
\* clips of 0..MaxSamples samples are tried besides those near a tenth of a second
MaxSamples == 2

\* the YAMNet mean-score vector covers the class list
NumScores == Max2(Len(RemoteClassMap), Len(FallbackClassMap))

ScoreValues == {0, 5000, 9000}

ScoreVectors ==
  {s \in [1..NumScores -> ScoreValues] :
     Cardinality({i \in 1..NumScores : s[i] # 0}) <= MaxActive}

FeatureSets ==
  [zcr_mean : {15, 25}, spec_mean : {1500, 2500, 6000},
   spec_std : {400, 600}, bandwidth_mean : {2000, 2500}, mfcc_std_mean : {15, 20}]

\* features on which no detector fires
QuietFeatures ==
  [zcr_mean |-> 15, spec_mean |-> 1500, spec_std |-> 400,
   bandwidth_mean |-> 2000, mfcc_std_mean |-> 15]

ZeroScores == [i \in 1..NumScores |-> 0]

SampleRates == (1..MaxRate) \cup {8000, 11025, 16000, 22050, 44100}

SampleCounts(rate) ==
  (0..MaxSamples) \cup {n \in {(rate \div 10) - 1, rate \div 10, (rate \div 10) + 1} : n >= 0}

UnreadableClip ==
  [readable |-> FALSE, sample_rate |-> 0, samples |-> 0,
   features |-> QuietFeatures, scores |-> ZeroScores]

\* one-second clips at 16 kHz of every content, and quiet clips of every length
Clips ==
  {UnreadableClip}
  \cup {[readable |-> TRUE, sample_rate |-> 16000, samples |-> 16000,
         features |-> f, scores |-> s] : f \in FeatureSets, s \in ScoreVectors}
  \cup UNION {{[readable |-> TRUE, sample_rate |-> r, samples |-> n,
                features |-> QuietFeatures, scores |-> ZeroScores]
               : n \in SampleCounts(r)} : r \in SampleRates}

Envs == {"net_up", "net_down", "model_error"}

NoCall == [outcome |-> "none"]

(***************************************************************************)
(* Spec: one file, processed any number of times                           *)
(***************************************************************************)
\* the application after StemStamp() is constructed
GuiStart ==
  /\ fl_studio_dir = ""
  /\ fl_studio = None
  /\ threads = <<>>
  /\ log = EmptyBag
  /\ copied = {}
  /\ batches = <<>>
  /\ events = 0

Init ==
  /\ clip \in Clips
  /\ call = NoCall
  /\ prev = NoCall
  /\ GuiStart

\* the file is handed to GeneralSoundProcessor.process_file
ProcessFile(env) ==
  /\ call' = ProcessorProcessFile(clip, env)
  /\ prev' = call
  /\ UNCHANGED clip
  /\ UNCHANGED gvars

Next == \E env \in Envs : ProcessFile(env)

Spec == Init /\ [][Next]_vars

(***************************************************************************)
(* The application: StemStampGUI, StemStamp, FLStudioIntegrator            *)
(***************************************************************************)
\* button presses and worker threads in one run
MaxEvents == 3
MaxThreads == 2

\* what the directory dialog can return ("" when it is cancelled)
Dirs == {"/fl/a", "/fl/b"}

\* the files the file dialog lists, in its order
Listing == <<"/in/clip.WAV", "/in/kick.wav", "/in/notes.txt">>

\* what sf.read decodes from each file
DiskClip(file) ==
  CASE file = "/in/kick.wav" ->
         [readable |-> TRUE, sample_rate |-> 16000, samples |-> 16000,
          features |-> [zcr_mean |-> 15, spec_mean |-> 6000, spec_std |-> 600,
                        bandwidth_mean |-> 2000, mfcc_std_mean |-> 15],
          scores |-> ZeroScores]
    [] file = "/in/clip.WAV" ->
         [readable |-> TRUE, sample_rate |-> 16000, samples |-> 100,
          features |-> QuietFeatures, scores |-> ZeroScores]
    [] OTHER -> UnreadableClip

\* str.endswith
EndsWith(w, suffix) ==
  /\ Len(w) >= Len(suffix)
  /\ \A j \in 1..Len(suffix) : w[Len(w) - Len(suffix) + j] = suffix[j]

\* file.lower().endswith('.wav')
IsWav(file) == EndsWith(Lower(Chars(file)), Chars(".wav"))

\* the position of the last c in w, 0 when there is none
LastIndexOf(w, c) ==
  IF \E i \in 1..Len(w) : w[i] = c
    THEN CHOOSE i \in 1..Len(w) : w[i] = c /\ \A j \in (i + 1)..Len(w) : w[j] # c
    ELSE 0

\* os.path.basename
Basename(w) == SubSeq(w, LastIndexOf(w, "/") + 1, Len(w))

\* Path(source_path).stem: the last component without its last suffix
Stem(w) ==
  LET b == Basename(w)
      d == LastIndexOf(b, ".")
  IN  IF d > 1 THEN SubSeq(b, 1, d - 1) ELSE b

\* f"{instrument_type.lower()}_{file_name}.wav"
NewName(instrument_type, source_path) ==
  Lower(Chars(instrument_type)) \o <<"_">> \o Stem(Chars(source_path)) \o Chars(".wav")

Line(msg, text) == [msg |-> msg, text |-> text]

\* the lines a run of self.log calls adds, as a bag
RECURSIVE Lines(_)
Lines(seq) ==
  IF seq = <<>> THEN EmptyBag ELSE SetToBag({Head(seq)}) (+) Lines(Tail(seq))

\* faulty variant: the worker's own report is missing
ErrorReportsCallbackOnly(file, error) ==
  <<Line("error", <<Chars(file), error>>)>>

\* what a raising callback leaves in the log: StemStamp.process_file reports the
\* path and re-raises, _process_single_file reports the base name
ErrorReports(file, error) ==
  <<Line("error", <<Chars(file), error>>),
    Line("error", <<Basename(Chars(file)), error>>)>>

NewThread(file, batch) ==
  [file |-> file, batch |-> batch, pc |-> "start", path |-> None,
   instrument_type |-> "none", color |-> "none", failed |-> FALSE,
   entered |-> None]   \* the directory selected when the callback was entered

\* the loop of _process_files from position i on: what it appends to the log
RECURSIVE BatchLog(_, _)
BatchLog(files, i) ==
  IF i > Len(files) THEN <<>>
  ELSE <<Line(IF IsWav(files[i]) THEN "processing" ELSE "skipping", files[i])>>
         \o BatchLog(files, i + 1)

\* the loop of _process_files from position i on: the threads it starts
RECURSIVE BatchThreads(_, _, _)
BatchThreads(files, i, batch) ==
  IF i > Len(files) THEN <<>>
  ELSE (IF IsWav(files[i]) THEN <<NewThread(files[i], batch)>> ELSE <<>>)
         \o BatchThreads(files, i + 1, batch)

\* the files of the listing at the positions in S, in listing order
RECURSIVE Picked(_, _)
Picked(S, i) ==
  IF i > Len(Listing) THEN <<>>
  ELSE (IF i \in S THEN <<Listing[i]>> ELSE <<>>) \o Picked(S, i + 1)

\* the tuples askopenfilenames can return: any selection from the listing
\* (the empty tuple when the dialog is cancelled)
FileTuples == {Picked(S, 1) : S \in SUBSET (1..Len(Listing))}

GuiInit ==
  /\ clip = UnreadableClip
  /\ call = NoCall
  /\ prev = NoCall
  /\ GuiStart

\* StemStampGUI._select_fl_directory, the dialog returning directory
SelectFlDirectory(directory) ==
  /\ events < MaxEvents
  /\ events' = events + 1
  /\ IF directory # ""
       THEN /\ fl_studio_dir' = directory
            /\ log' = log (+) Lines(<<Line("directory", directory)>>)
       ELSE UNCHANGED <<fl_studio_dir, log>>
  /\ UNCHANGED <<fl_studio, threads, copied, batches>>
  /\ UNCHANGED pvars

\* StemStampGUI._select_files and _process_files, the dialog returning files
SelectFiles(files) ==
  /\ events < MaxEvents
  /\ Len(threads) + Len(BatchThreads(files, 1, 0)) <= MaxThreads
  /\ events' = events + 1
  /\ IF files = <<>> \/ fl_studio_dir = ""
       THEN UNCHANGED <<threads, log, batches>>      \* nothing selected, or showerror
       ELSE /\ batches' = Append(batches, files)
            /\ log' = log (+) Lines(BatchLog(files, 1))
            /\ threads' = threads \o BatchThreads(files, 1, Len(batches) + 1)
  /\ UNCHANGED <<fl_studio_dir, fl_studio, copied>>
  /\ UNCHANGED pvars

\* the callback raises in thread t: both except clauses run, the thread ends
Raise(t, error) ==
  /\ threads' = [threads EXCEPT ![t].pc = "done", ![t].failed = TRUE]
  /\ log' = log (+) Lines(ErrorReports(threads[t].file, error))

\* StemStamp.process_file, lines 25-28: is there an integrator, and for which path
CheckIntegrator(t) ==
  /\ threads[t].pc = "start"
  /\ IF fl_studio # None
       THEN /\ threads' = [threads EXCEPT ![t].pc = "process",
                                          ![t].entered = fl_studio_dir]
            /\ UNCHANGED log
       ELSE IF fl_studio_dir = ""
         THEN Raise(t, "FL Studio directory not set")
         ELSE /\ threads' = [threads EXCEPT ![t].pc = "set_integrator",
                                            ![t].path = fl_studio_dir,
                                            ![t].entered = fl_studio_dir]
              /\ UNCHANGED log
  /\ UNCHANGED <<fl_studio_dir, fl_studio, copied, batches, events>>
  /\ UNCHANGED pvars

\* StemStamp.process_file, line 29: self.fl_studio = FLStudioIntegrator(path)
SetIntegrator(t) ==
  /\ threads[t].pc = "set_integrator"
  /\ fl_studio' = threads[t].path
  /\ threads' = [threads EXCEPT ![t].pc = "process"]
  /\ UNCHANGED <<fl_studio_dir, log, copied, batches, events>>
  /\ UNCHANGED pvars

\* StemStamp.process_file, line 32: self.processor.process_file(file_path)
Classification(t, env) ==
  /\ threads[t].pc = "process"
  /\ LET r == ProcessorProcessFile(DiskClip(threads[t].file), env)
     IN  IF r.outcome = "ok"
           THEN /\ threads' = [threads EXCEPT ![t].pc = "move",
                                              ![t].instrument_type = r.instrument_type,
                                              ![t].color = r.color]
                /\ UNCHANGED log
           ELSE Raise(t, r.error)
  /\ UNCHANGED <<fl_studio_dir, fl_studio, copied, batches, events>>
  /\ UNCHANGED pvars

\* StemStamp.process_file, lines 35-39, and the worker's closing line:
\* FLStudioIntegrator.process_and_move_file copies (or copy2 raises), the
\* results are logged
MoveFile(t, copy_ok) ==
  /\ threads[t].pc = "move"
  /\ IF copy_ok
       THEN /\ copied' = copied \cup
                 {[source |-> threads[t].file, dir |-> fl_studio,
                   name |-> NewName(threads[t].instrument_type, threads[t].file),
                   entered |-> threads[t].entered,
                   selected |-> fl_studio_dir]}
            /\ threads' = [threads EXCEPT ![t].pc = "done"]
            /\ log' = log (+) Lines(<<Line("detected", threads[t].instrument_type),
                                       Line("color", threads[t].color),
                                       Line("success", Basename(Chars(threads[t].file)))>>)
       ELSE /\ Raise(t, "copy")
            /\ UNCHANGED copied
  /\ UNCHANGED <<fl_studio_dir, fl_studio, batches, events>>
  /\ UNCHANGED pvars

\* one step of worker thread t
ThreadStep(t) ==
  \/ CheckIntegrator(t)
  \/ SetIntegrator(t)
  \/ \E env \in Envs : Classification(t, env)
  \/ \E copy_ok \in BOOLEAN : MoveFile(t, copy_ok)

GuiNext ==
  \/ \E directory \in Dirs \cup {""} : SelectFlDirectory(directory)
  \/ \E files \in FileTuples : SelectFiles(files)
  \/ \E t \in 1..Len(threads) : CheckIntegrator(t)
  \/ \E t \in 1..Len(threads) : SetIntegrator(t)
  \/ \E t \in 1..Len(threads), env \in Envs : Classification(t, env)
  \/ \E t \in 1..Len(threads), copy_ok \in BOOLEAN : MoveFile(t, copy_ok)

SpecGui == GuiInit /\ [][GuiNext]_vars

(***************************************************************************)
(* Properties of the pipeline                                              *)
(***************************************************************************)
Returned == call.outcome = "ok"

PassesLengthCheck == clip.readable /\ clip.samples >= MinSamples(clip.sample_rate)

\* the vocabulary as the specification enumerates it
SpecVocabularyOrder ==
  <<"Drums", "Snare drum", "Bass drum", "Cymbal", "Hi-hat", "Percussion",
    "Guitar", "Electric guitar", "Acoustic guitar", "Bass guitar", "Piano", "Violin",
    "Saxophone", "Trumpet", "Flute", "Clarinet",
    "Synthesizer", "Electronic", "Sample",
    "Speech", "Male speech", "Female speech", "Singing", "Vocals",
    "Music">>

SpecVocabulary == {SpecVocabularyOrder[i] : i \in 1..Len(SpecVocabularyOrder)}

SpecPosition(k) == CHOOSE i \in 1..Len(SpecVocabularyOrder) : SpecVocabularyOrder[i] = k

NonGeneric == SoundTypes \ {"Music"}

\* the eligible set of a final map, as the specification defines it
Eligible(cl) ==
  {k \in NonGeneric : cl[k] > 1500}
    \cup (IF \A k \in NonGeneric : cl[k] <= 1500 THEN {"Music"} ELSE {})

\* the map of the latest call before the Music rule
Merged == MergedClasses(clip.features, clip.scores, call.env = "net_up")

\* C1: whenever the clip passes the length check and the classifier returns a
\* map (it does not raise), process_file returns one category, a member of the vocabulary (the
\* code's keys and the specification's list both), chosen from a non-empty
\* filtered set: selection does not fail.
C1_OneCategoryFromVocabulary ==
  (call.outcome # "none" /\ PassesLengthCheck /\ call.error # "classify") =>
    /\ call.outcome = "ok"
    /\ call.filtered # <<>>
    /\ call.instrument_type \in SoundTypes \cap SpecVocabulary
    /\ \E i \in 1..Len(call.filtered) : call.filtered[i][1] = call.instrument_type

\* C1 witness: a clip on which nothing is detected was classified and labelled
C1_Witness ==
  /\ Returned
  /\ \A k \in SoundTypes : call.classifications[k] = 0
  /\ call.instrument_type = "Music"

\* C2: a readable clip shorter than a tenth of a second (10 * samples <
\* sample_rate) ends in an error and never reaches the classifier.
C2_ShortClipRejected ==
  (call.outcome # "none" /\ clip.readable /\ 10 * clip.samples < clip.sample_rate) =>
    /\ call.outcome = "error"
    /\ ~call.classified
    /\ call.classifications = NoMap

\* C3: Music is returned exactly when every other category is at most 0.15; a
\* category other than Music is returned only when its own confidence is above
\* 0.15; the returned category has the greatest confidence among the eligible.
C3_SelectionRule ==
  Returned =>
    LET cl == call.classifications
        r  == call.instrument_type
        el == Eligible(cl)
    IN  /\ (r = "Music") <=> (\A k \in NonGeneric : cl[k] <= 1500)
        /\ r # "Music" => cl[r] > 1500
        /\ r \in el
        /\ \A k \in el : cl[k] <= cl[r]

\* C3 witness: a category other than Music was returned while another eligible
\* category had a smaller confidence
C3_Witness ==
  /\ Returned
  /\ call.instrument_type # "Music"
  /\ \E k \in Eligible(call.classifications) :
       call.classifications[k] < call.classifications[call.instrument_type]

\* C4: among the eligible categories that share the greatest confidence, the
\* one returned is the earliest in the specification's enumeration order.
C4_TieBreakSpecOrder ==
  Returned =>
    LET cl == call.classifications
        r  == call.instrument_type
        el == Eligible(cl)
    IN  \A k \in el :
          (\A k2 \in el : cl[k2] <= cl[k]) => SpecPosition(r) <= SpecPosition(k)

\* C4 witness: Acoustic guitar and Bass guitar, which the code's dictionary and
\* the specification order differently, are tied at the greatest confidence
C4_Witness ==
  /\ Returned
  /\ LET cl == call.classifications
     IN  /\ cl["Acoustic guitar"] = cl["Bass guitar"]
         /\ cl["Bass guitar"] > 1500
         /\ \A k \in NonGeneric : cl[k] <= cl["Bass guitar"]

\* C5: two calls on the same file that both return give the same confidence
\* map and the same category, whether or not the class-map download succeeded.
C5_Deterministic ==
  (prev.outcome = "ok" /\ call.outcome = "ok") =>
    /\ prev.classifications = call.classifications
    /\ prev.instrument_type = call.instrument_type

\* C7: in the returned map Music is 0.1 when every other category is at most
\* 0.15, and 0.0 otherwise.
C7_GenericFallbackValue ==
  Returned =>
    LET cl == call.classifications
    IN  cl["Music"] = (IF \A k \in NonGeneric : cl[k] <= 1500 THEN 1000 ELSE 0)

\* C8: when Singing is above 0.3 in the merged map, the returned map has
\* Vocals >= 0.9 * Singing.
C8_SingingBoostsVocals ==
  (Returned /\ Merged["Singing"] > 3000) =>
    10 * call.classifications["Vocals"] >= 9 * Merged["Singing"]

PercussionConfidence(m) ==
  Max2(m["Snare drum"], Max2(m["Bass drum"],
    Max2(m["Cymbal"], Max2(m["Hi-hat"], m["Percussion"]))))

\* C9: when the greatest of Snare drum, Bass drum, Cymbal, Hi-hat, Percussion
\* in the merged map is above 0.3, the returned map has Drums >= 0.8 * it.
C9_PercussionBoostsDrums ==
  (Returned /\ PercussionConfidence(Merged) > 3000) =>
    10 * call.classifications["Drums"] >= 8 * PercussionConfidence(Merged)

\* C10: when Electric guitar is above 0.3 in the merged map, the returned map
\* has Guitar >= 0.8 * Electric guitar.
C10_ElectricBoostsGuitar ==
  (Returned /\ Merged["Electric guitar"] > 3000) =>
    10 * call.classifications["Guitar"] >= 8 * Merged["Electric guitar"]

\* C10 witness: Electric guitar is 0.5 from the embedding scores alone (the
\* guitar heuristic did not fire) and a map was returned
C10_Witness ==
  /\ Returned
  /\ Merged["Electric guitar"] = 5000
  /\ HeuristicRules(clip.features)["Guitar"] = 0
  /\ call.classifications["Guitar"] >= 4000

(***************************************************************************)
(* Properties of the batch                                                 *)
(***************************************************************************)
Workers == 1..Len(threads)

\* how many error lines of the log name w
RECURSIVE CountIn(_, _)
CountIn(B, S) ==
  IF S = {} THEN 0
  ELSE LET x == CHOOSE y \in S : TRUE IN CopiesIn(x, B) + CountIn(B, S \ {x})

ErrorLines(w) ==
  CountIn(log, {l \in BagToSet(log) : l.msg = "error" /\ l.text[1] = w})

\* the workers whose callback raised on a file with base name w
FailedWorkers(w) ==
  {t \in Workers : threads[t].failed /\ Basename(Chars(threads[t].file)) = w}

\* every .wav file of every batch has its worker
EveryWavHasWorker ==
  \A b \in 1..Len(batches) : \A i \in 1..Len(batches[b]) :
    IsWav(batches[b][i]) =>
      \E t \in Workers : threads[t].batch = b /\ threads[t].file = batches[b][i]

\* each failed callback has left its own error line, naming the file
EveryFailureReported ==
  \A t \in Workers :
    threads[t].failed =>
      LET w == Basename(Chars(threads[t].file))
      IN  ErrorLines(w) = Cardinality(FailedWorkers(w))

\* a step that moves one worker leaves every other worker as it was
OthersUntouched ==
  /\ Len(threads') >= Len(threads)
  /\ \A t \in Workers :
       threads'[t].pc # threads[t].pc =>
         \A u \in Workers \ {t} : threads'[u] = threads[u]

\* C6: every .wav file of every batch gets its worker, whatever happened to the
\* other files; each failed callback has left its own error line, naming the
\* file, in the log; and no step of one worker (its failure included) changes
\* or stops another worker.
C6_FailureDoesNotAbortBatch ==
  /\ [](EveryWavHasWorker /\ EveryFailureReported)
  /\ [][OthersUntouched]_vars

\* C6 witness: in one batch, the callback of an earlier file raised and a later
\* file was processed and copied all the same
C6_Witness ==
  \E t, u \in Workers :
    /\ t < u
    /\ threads[t].batch = threads[u].batch
    /\ threads[t].failed
    /\ threads[u].pc = "done" /\ ~threads[u].failed
    /\ \E c \in copied : c.source = threads[u].file

(***************************************************************************)
(* Properties of the merge                                                 *)
(***************************************************************************)
\* the map the heuristic rules leave for the clip
Heuristic == HeuristicRules(clip.features)

\* C11: in the returned map every category other than Music is at least what
\* the heuristic rules assigned, and at least what it was after the merge: no
\* later step lowers it, only Music is ever decreased.  In particular with
\* zero-crossing rate 0.15 and centroid 6000 the returned map has
\* Cymbal >= 0.9, Hi-hat >= 0.8 and Drums >= 0.9.
C11_HeuristicValuesKept ==
  Returned =>
    LET cl == call.classifications
        h  == Heuristic
        m  == Merged
    IN  /\ \A k \in NonGeneric : cl[k] >= h[k] /\ cl[k] >= m[k]
        /\ (clip.features.zcr_mean = 15 /\ clip.features.spec_mean = 6000) =>
             (cl["Cymbal"] >= 9000 /\ cl["Hi-hat"] >= 8000 /\ cl["Drums"] >= 9000)

\* C11 witness: the snare heuristic fired (0.85) and the embedding gave Snare
\* drum a smaller score above 0.3 (0.5), which the merge had to turn down
C11_Witness ==
  /\ Returned
  /\ Heuristic["Snare drum"] = 8500
  /\ \E i \in 1..Len(LoadClassMap(call.env = "net_up")) :
       /\ LoadClassMap(call.env = "net_up")[i] = "Snare drum"
       /\ clip.scores[i] = 5000
  /\ call.classifications["Snare drum"] = 8500

(***************************************************************************)
(* Properties of the integrator                                            *)
(***************************************************************************)
\* C12: every copy goes into the directory that is selected in the GUI while
\* its file is processed: the one selected when the callback was entered or
\* the one selected when the copy was made.
C12_CopiedIntoSelectedDirectory ==
  \A c \in copied : c.dir \in {c.entered, c.selected}

====
